---- MODULE Spec2Model ----
(***************************************************************************)
(* A model of repo_ripper.py, the organization-scoped repository           *)
(* harvester, and of the retry loop of gen_abi.py                          *)
(* (ABIGenerator.fetch_abi_from_etherscan). In repo_ripper.py:             *)
(* harvester (setup_directories, fetch_repositories, get_selected_repos,   *)
(* find_readme, clone_and_process_repo, clone_repos_from_file,             *)
(* clone_organization_repos and the script's entry point).                 *)
(*                                                                         *)
(* Strings are sequences of one-character strings, so that the prefix test *)
(* of str.startswith, os.path.join, os.path.normpath and str.split are     *)
(* computed as Python computes them.                                       *)
(***************************************************************************)
EXTENDS Integers, Sequences, FiniteSets, TLC

VARIABLES
    pc,           \* position of the run
    base_dir,     \* --base-dir argument
    org_dir,      \* --org-dir argument
    org_name,     \* --org argument
    dirs,         \* the directories that exist on the file system
    made,         \* the directories this run has created
    cwd,          \* the process's working directory (os.getcwd / os.chdir)
    org_path,     \* the value setup_directories returned
    repos_file,   \* --repos-file argument: whether given, and the file's lines
    remote_trees, \* the file trees a clone of a repository may bring
    exit_code,    \* the status passed to sys.exit, or -1 while running
    console,      \* what console.print has been given, in order
    catalog_size, \* the number of repositories the organization owns (server side)
    page_number,  \* fetch_repositories: the page to request next
    repositories, \* fetch_repositories: the descriptors collected so far
    requests,     \* every HTTP request issued, with its outcome, in order
    all_repos,    \* the list fetch_repositories returned
    indices_input,      \* get_selected_repos: the operator's last answer to the prompt
    prompts,            \* get_selected_repos: the number of answers given
    selected_indices,   \* the value get_selected_repos returned
    position,           \* the clone loop: how many of selected_indices are behind it
    successful_clones,  \* the clone loop's counters
    failed_clones,
    processed_readmes,
    outcomes,           \* what happened to each entry the loop took up, in order
    files,              \* the README copies written, by path
    abi_pc,             \* fetch_abi_from_etherscan: position of the call
    api_key,            \* self.ETHERSCAN_API_KEY
    contract_address,   \* the call's arguments
    network,
    attempt,            \* the loop variable of the retry loop
    abi_requests,       \* every requests.get of the call, with its outcome, in order
    sleeps,             \* every time.sleep of the call: the seconds asked for, in order
    abi_console,        \* what the call has printed, in order
    abi_result          \* the value the call returned

vars == <<pc, base_dir, org_dir, org_name, dirs, made, cwd, org_path,
          repos_file, remote_trees, exit_code, console,
          catalog_size, page_number, repositories, requests, all_repos,
          indices_input, prompts, selected_indices,
          position, successful_clones, failed_clones, processed_readmes, outcomes, files,
          abi_pc, api_key, contract_address, network, attempt, abi_requests,
          sleeps, abi_console, abi_result>>

sandboxVars == <<base_dir, org_dir, org_name, dirs, made, cwd, org_path,
                 repos_file, remote_trees>>
fetchVars == <<catalog_size, page_number, repositories, requests, all_repos>>
selectVars == <<indices_input, prompts, selected_indices>>
cloneVars == <<position, successful_clones, failed_clones, processed_readmes, outcomes,
               files>>
abiVars == <<abi_pc, api_key, contract_address, network, attempt, abi_requests,
             sleeps, abi_console, abi_result>>

\* the values of abi_result: the call has not returned, it returned None,
\* it returned the list json.loads gave
NotReturned == [returned |-> FALSE, none |-> FALSE, abi |-> <<>>]
ReturnedNone == [returned |-> TRUE, none |-> TRUE, abi |-> <<>>]
ReturnedAbi(abi) == [returned |-> TRUE, none |-> FALSE, abi |-> abi]

\* gen_abi.py is not running
AbiIdle ==
    /\ abi_pc = "idle"
    /\ api_key = ""
    /\ contract_address = ""
    /\ network = ""
    /\ attempt = 0
    /\ abi_requests = <<>>
    /\ sleeps = <<>>
    /\ abi_console = <<>>
    /\ abi_result = NotReturned

-----------------------------------------------------------------------------
(* Bounds of the model *)

MaxBaseLen == 5
MaxOrgLen == 2
MaxCatalog == 201
MaxRunCatalog == 2
MaxInputLen == 3
MaxPrompts == 2
MaxFiles == 2
MaxPieces == 4

-----------------------------------------------------------------------------
(* Strings and paths (posixpath) *)

Chars == {"/", ".", "w"}

Strings(n) == UNION {[1..k -> Chars] : k \in 0..n}

NoPath == <<"?">>
NoInput == <<"?">>

\* str.startswith
startswith(s, prefix) ==
    /\ Len(prefix) <= Len(s)
    /\ SubSeq(s, 1, Len(prefix)) = prefix

\* str.endswith
endswith(s, suffix) ==
    /\ Len(suffix) <= Len(s)
    /\ SubSeq(s, Len(s) - Len(suffix) + 1, Len(s)) = suffix

\* str.split(sep) for a one-character separator
RECURSIVE split(_, _)
split(s, sep) ==
    IF \A i \in 1..Len(s) : s[i] # sep
    THEN <<s>>
    ELSE LET i == CHOOSE k \in 1..Len(s) :
                      s[k] = sep /\ \A j \in 1..(k - 1) : s[j] # sep
         IN  <<SubSeq(s, 1, i - 1)>> \o split(SubSeq(s, i + 1, Len(s)), sep)

\* sep.join(parts)
RECURSIVE strjoin(_, _)
strjoin(parts, sep) ==
    IF parts = <<>> THEN <<>>
    ELSE IF Len(parts) = 1 THEN parts[1]
    ELSE parts[1] \o sep \o strjoin(Tail(parts), sep)

\* os.path.join(a, b)
path_join(a, b) ==
    IF startswith(b, <<"/">>) THEN b
    ELSE IF a = <<>> \/ endswith(a, <<"/">>) THEN a \o b
    ELSE a \o <<"/">> \o b

\* the component loop of os.path.normpath
RECURSIVE norm_comps(_, _, _)
norm_comps(comps, new_comps, initial_slashes) ==
    IF comps = <<>> THEN new_comps
    ELSE LET comp == Head(comps)
             n == Len(new_comps)
         IN  IF comp = <<>> \/ comp = <<".">>
             THEN norm_comps(Tail(comps), new_comps, initial_slashes)
             ELSE IF \/ comp # <<".", ".">>
                     \/ (initial_slashes = 0 /\ n = 0)
                     \/ (n > 0 /\ new_comps[n] = <<".", ".">>)
             THEN norm_comps(Tail(comps), Append(new_comps, comp), initial_slashes)
             ELSE IF n > 0
             THEN norm_comps(Tail(comps), SubSeq(new_comps, 1, n - 1), initial_slashes)
             ELSE norm_comps(Tail(comps), new_comps, initial_slashes)

\* os.path.normpath
normpath(path) ==
    IF path = <<>> THEN <<".">>
    ELSE LET initial_slashes ==
                 IF ~startswith(path, <<"/">>) THEN 0
                 ELSE IF startswith(path, <<"/", "/">>)
                         /\ ~startswith(path, <<"/", "/", "/">>) THEN 2
                 ELSE 1
             joined == strjoin(norm_comps(split(path, "/"), <<>>, initial_slashes),
                               <<"/">>)
             out == [i \in 1..initial_slashes |-> "/"] \o joined
         IN  IF out = <<>> THEN <<".">> ELSE out

\* os.path.abspath, with the process's working directory wd
abspath(path, wd) ==
    IF startswith(path, <<"/">>) THEN normpath(path)
    ELSE normpath(path_join(wd, path))

\* the directory a path names on the file system: on Linux a leading "//" is "/"
realdir(path, wd) ==
    LET a == abspath(path, wd)
    IN  IF startswith(a, <<"/", "/">>) THEN Tail(a) ELSE a

\* os.path.split
path_split(p) ==
    LET slashes == {k \in 1..Len(p) : p[k] = "/"}
        i == IF slashes = {} THEN 0
             ELSE CHOOSE k \in slashes : \A j \in slashes : j <= k
        head == SubSeq(p, 1, i)
        tail == SubSeq(p, i + 1, Len(p))
        rstripped ==
            IF \A k \in 1..Len(head) : head[k] = "/" THEN head
            ELSE LET last == CHOOSE k \in 1..Len(head) :
                                 head[k] # "/" /\ \A j \in (k + 1)..Len(head) : head[j] = "/"
                 IN  SubSeq(head, 1, last)
    IN  <<rstripped, tail>>

\* the prefixes of p that end at a component boundary
component_prefixes(p) ==
    {SubSeq(p, 1, i) : i \in {k \in 1..Len(p) :
                                 k = Len(p) \/ p[k] = "/" \/ p[k + 1] = "/"}}

\* os.path.exists for a directory path: the kernel resolves it component by
\* component, so every intermediate directory has to exist
path_exists(p, fs, wd) ==
    \A q \in component_prefixes(p) : realdir(q, wd) \in fs

\* os.makedirs: head, tail = path.split(name), and once more when tail is empty
makedirs_retry_split(ht) == IF ht[2] = <<>> THEN path_split(ht[1]) ELSE ht

makedirs_head_tail(name) == makedirs_retry_split(path_split(name))

\* os.makedirs: if head and tail and not path.exists(head)
makedirs_needs_head(ht, fs, wd) ==
    ht[1] # <<>> /\ ht[2] # <<>> /\ ~path_exists(ht[1], fs, wd)

\* os.makedirs(name, exist_ok=True): the file system after the call. The head
\* is made first when it is missing; mkdir(name) then creates the directory,
\* or finds it there (a FileExistsError that exist_ok forgives)
RECURSIVE makedirs(_, _, _)
makedirs_from(name, ht, needs_head, fs, wd) ==
    IF needs_head
    THEN IF ht[2] = <<".">>
         THEN makedirs(ht[1], fs, wd)
         ELSE makedirs(ht[1], fs, wd) \cup {realdir(name, wd)}
    ELSE fs \cup {realdir(name, wd)}

makedirs_split(name, ht, fs, wd) ==
    makedirs_from(name, ht, makedirs_needs_head(ht, fs, wd), fs, wd)

makedirs(name, fs, wd) == makedirs_split(name, makedirs_head_tail(name), fs, wd)

\* d is wd or lies below it, component by component
IsDescendant(d, wd) ==
    \/ d = wd
    \/ startswith(d, IF endswith(wd, <<"/">>) THEN wd ELSE wd \o <<"/">>)

-----------------------------------------------------------------------------
(* setup_directories *)

\* a line given to console.print
Line(text) == [text |-> text]

EscapeError == Line("Error: Attempting to create directories outside of the current directory.")
ExistsWarning == Line("Warning: The directory already exists. Cloning will proceed inside this directory.")

\* The containment test of setup_directories
inside_current_dir(path, current_dir) ==
    startswith(abspath(path, current_dir), current_dir)

\* setup_directories(base_dir, org_dir, current_dir) on file system fs:
\* the exit status (-1: returned), the returned path, the file system, the output
\* lines 50-59 made to fail on a directory that is there already
setup_org_path_exclusive(org_p, current_dir, fs1) ==
    IF ~inside_current_dir(org_p, current_dir) \/ path_exists(org_p, fs1, current_dir)
    THEN [exit |-> 1, org_path |-> NoPath, fs |-> fs1, out |-> <<EscapeError>>]
    ELSE [exit |-> -1, org_path |-> org_p,
          fs |-> makedirs(org_p, fs1, current_dir), out |-> <<>>]

\* lines 50-59, with org_path computed and base_path made (file system fs1)
setup_org_path(org_p, current_dir, fs1) ==
    IF ~inside_current_dir(org_p, current_dir)
    THEN [exit |-> 1, org_path |-> NoPath, fs |-> fs1, out |-> <<EscapeError>>]
    ELSE IF path_exists(org_p, fs1, current_dir)
    THEN [exit |-> -1, org_path |-> org_p, fs |-> fs1, out |-> <<ExistsWarning>>]
    ELSE [exit |-> -1, org_path |-> org_p,
          fs |-> makedirs(org_p, fs1, current_dir), out |-> <<>>]

\* lines 45-59, with base_path computed
setup_base_path(base_path, org, current_dir, fs) ==
    IF ~inside_current_dir(base_path, current_dir)
    THEN [exit |-> 1, org_path |-> NoPath, fs |-> fs, out |-> <<EscapeError>>]
    ELSE setup_org_path(path_join(base_path, org), current_dir,
                        makedirs(base_path, fs, current_dir))

setup_directories(base, org, current_dir, fs) ==
    setup_base_path(path_join(current_dir, base), org, current_dir, fs)

-----------------------------------------------------------------------------
(* find_readme: os.walk over the tree a clone brought *)

README_MD == <<"r", "e", "a", "d", "m", "e", ".", "m", "d">>

UpperCase == <<"A", "B", "C", "D", "E", "F", "G", "H", "I", "J", "K", "L", "M", "N", "O", "P", "Q", "R", "S", "T", "U", "V", "W", "X", "Y", "Z">>
LowerCase == <<"a", "b", "c", "d", "e", "f", "g", "h", "i", "j", "k", "l", "m", "n", "o", "p", "q", "r", "s", "t", "u", "v", "w", "x", "y", "z">>

\* str.lower, of a file name
lower_char(c) ==
    IF \E i \in DOMAIN UpperCase : UpperCase[i] = c
    THEN LowerCase[CHOOSE i \in DOMAIN UpperCase : UpperCase[i] = c]
    ELSE c

lower(name) == [i \in 1..Len(name) |-> lower_char(name[i])]

\* A tree is the set of its regular files, each the sequence of names that leads
\* to it from the top, and the order in which a directory lists its entries.
\* the test of the inner loop without the lower-casing
matching_files_exact(tree, root) ==
    SelectSeq(tree.order,
              LAMBDA file : Append(root, file) \in tree.files /\ file = README_MD)

\* the regular files of directory root that pass the test of the inner loop
matching_files(tree, root) ==
    SelectSeq(tree.order,
              LAMBDA file : Append(root, file) \in tree.files /\ lower(file) = README_MD)

\* the sub-directories of directory root, which os.walk goes down into
walk_dirs(tree, root) ==
    SelectSeq(tree.order,
              LAMBDA d : \E p \in tree.files :
                            /\ Len(p) > Len(root) + 1
                            /\ SubSeq(p, 1, Len(root) + 1) = Append(root, d))

\* os.walk is top-down: a directory's files, then each sub-directory in turn
RECURSIVE walk_from(_, _), walk_each(_, _, _)
walk_first(found, tree, root, rest) ==
    IF found # <<>> THEN found ELSE walk_each(tree, root, rest)

walk_each(tree, root, ds) ==
    IF ds = <<>> THEN <<>>
    ELSE walk_first(walk_from(tree, Append(root, Head(ds))), tree, root, Tail(ds))

\* a walk that goes down into the sub-directories before it looks at the files
walk_from_bottom_up(tree, root) ==
    IF walk_each(tree, root, walk_dirs(tree, root)) # <<>>
    THEN walk_each(tree, root, walk_dirs(tree, root))
    ELSE IF matching_files(tree, root) # <<>>
    THEN Append(root, matching_files(tree, root)[1])
    ELSE <<>>

walk_from(tree, root) ==
    IF matching_files(tree, root) # <<>>
    THEN Append(root, matching_files(tree, root)[1])
    ELSE walk_each(tree, root, walk_dirs(tree, root))

\* os.path.join(root, file), root itself joined from repo_path by os.walk
RECURSIVE join_names(_, _)
join_names(path, names) ==
    IF names = <<>> THEN path
    ELSE join_names(path_join(path, Head(names)), Tail(names))

\* find_readme(repo_path) on the tree at repo_path: a path, or None (NoPath)
find_readme(repo_path, tree) ==
    IF walk_from(tree, <<>>) = <<>> THEN NoPath
    ELSE join_names(repo_path, walk_from(tree, <<>>))

\* The trees the model draws from
FileNames == {<<"R", "E", "A", "D", "M", "E", ".", "m", "d">>, <<"R", "e", "a", "d", "M", "e", ".", "M", "D">>,
              <<"r", "e", "a", "d", "m", "e", ".", "t", "x", "t">>}
DirNames == {<<"d">>, <<"R", "e", "a", "d", "m", "e", ".", "m", "d">>}

ListingOrders ==
    { <<<<"R", "E", "A", "D", "M", "E", ".", "m", "d">>, <<"d">>,
        <<"R", "e", "a", "d", "M", "e", ".", "M", "D">>, <<"R", "e", "a", "d", "m", "e", ".", "m", "d">>,
        <<"r", "e", "a", "d", "m", "e", ".", "t", "x", "t">>>>,
      <<<<"r", "e", "a", "d", "m", "e", ".", "t", "x", "t">>, <<"R", "e", "a", "d", "m", "e", ".", "m", "d">>,
        <<"R", "e", "a", "d", "M", "e", ".", "M", "D">>, <<"d">>,
        <<"R", "E", "A", "D", "M", "E", ".", "m", "d">>>> }

TreePaths ==
    {<<f>> : f \in FileNames}
      \cup {<<d, f>> : d \in DirNames, f \in FileNames}
      \cup {<<d, e, f>> : d \in DirNames, e \in DirNames, f \in FileNames}

RECURSIVE FileSets(_)
FileSets(n) ==
    IF n = 0 THEN {{}}
    ELSE FileSets(n - 1) \cup {T \cup {p} : T \in FileSets(n - 1), p \in TreePaths}

Trees(n) == [files : FileSets(n), order : ListingOrders]

\* The trees a clone may bring in a whole run: no README, one at the top, a nested one
RunTrees ==
    [files : { {<<<<"r", "e", "a", "d", "m", "e", ".", "t", "x", "t">>>>},
               {<<<<"R", "E", "A", "D", "M", "E", ".", "m", "d">>>>},
               {<<<<"d">>, <<"R", "e", "a", "d", "M", "e", ".", "M", "D">>>>, <<<<"r", "e", "a", "d", "m", "e", ".", "t", "x", "t">>>>} },
     order : {<<<<"R", "E", "A", "D", "M", "E", ".", "m", "d">>, <<"d">>,
                <<"R", "e", "a", "d", "M", "e", ".", "M", "D">>, <<"R", "e", "a", "d", "m", "e", ".", "m", "d">>,
                <<"r", "e", "a", "d", "m", "e", ".", "t", "x", "t">>>>}]

\* --repos-file not given: args.repos_file is None
NoReposFile == [given |-> FALSE, lines |-> <<>>]

-----------------------------------------------------------------------------
(* The state of the later steps before they start *)

NotSelecting ==
    /\ indices_input = NoInput
    /\ prompts = 0
    /\ selected_indices = <<>>

NotCloning ==
    /\ position = 0
    /\ successful_clones = 0
    /\ failed_clones = 0
    /\ processed_readmes = 0
    /\ outcomes = <<>>
    /\ files = {}

-----------------------------------------------------------------------------
(* The sandbox specification: setup_directories on drawn arguments *)

CurrentDir == <<"/", "w">>

TARGET_ORG_NAME == <<"t">>
OrgNames == {TARGET_ORG_NAME, <<"o">>}

InitialDirs ==
    { {<<"/">>, CurrentDir},
      {<<"/">>, CurrentDir, <<"/", "w", "/", "w">>} }

InitSandbox ==
    /\ pc = "start"
    /\ base_dir \in Strings(MaxBaseLen)
    /\ org_dir \in Strings(MaxOrgLen)
    /\ org_name = TARGET_ORG_NAME
    /\ dirs \in InitialDirs
    /\ made = {}
    /\ cwd = CurrentDir
    /\ org_path = NoPath
    /\ repos_file = NoReposFile
    /\ remote_trees = RunTrees
    /\ exit_code = -1
    /\ console = <<>>
    /\ catalog_size = 0
    /\ page_number = 1
    /\ repositories = <<>>
    /\ requests = <<>>
    /\ all_repos = <<>>
    /\ NotSelecting
    /\ NotCloning
    /\ AbiIdle

CallSetupDirectories ==
    /\ pc = "start"
    /\ \E r \in {setup_directories(base_dir, org_dir, cwd, dirs)} :
           /\ dirs' = r.fs
           /\ made' = made \cup (r.fs \ dirs)
           /\ org_path' = r.org_path
           /\ exit_code' = r.exit
           /\ console' = console \o r.out
           /\ pc' = IF r.exit = -1 THEN "setup_done" ELSE "exited"
    /\ UNCHANGED <<base_dir, org_dir, org_name, cwd, repos_file, remote_trees>>
    /\ UNCHANGED <<fetchVars, selectVars, cloneVars>>
    /\ UNCHANGED abiVars

\* setup_directories called once more with the same arguments
CallSetupDirectoriesAgain ==
    /\ pc = "setup_done"
    /\ \E r \in {setup_directories(base_dir, org_dir, cwd, dirs)} :
           /\ dirs' = r.fs
           /\ made' = made \cup (r.fs \ dirs)
           /\ org_path' = r.org_path
           /\ exit_code' = r.exit
           /\ console' = console \o r.out
           /\ pc' = IF r.exit = -1 THEN "setup_again" ELSE "exited"
    /\ UNCHANGED <<base_dir, org_dir, org_name, cwd, repos_file, remote_trees>>
    /\ UNCHANGED <<fetchVars, selectVars, cloneVars>>
    /\ UNCHANGED abiVars

NextSandbox == CallSetupDirectories \/ CallSetupDirectoriesAgain

SpecSandbox == InitSandbox /\ [][NextSandbox]_vars

-----------------------------------------------------------------------------
(* fetch_repositories *)

PerPage == 100

\* What one requests.get + raise_for_status can end in: a response body, a 4xx
\* or 5xx status raised as HTTPError, or a ConnectionError or Timeout raised by
\* requests.get. All four failures are RequestExceptions.
HttpErrors == {"404 Client Error", "500 Server Error"}
TransientFailures == {"500 Server Error", "ConnectionError", "Timeout"}
RequestExceptions == HttpErrors \cup TransientFailures

\* The URL of a page request: api_url with the page and per_page parameters
page_url_default_org(organization_name, page) ==
    [org |-> TARGET_ORG_NAME, page |-> page, per_page |-> PerPage]

page_url(organization_name, page) ==
    [org |-> organization_name, page |-> page, per_page |-> PerPage]

\* The descriptors the hosting API serves as page `page`, per_page a page, of a
\* catalog of n repositories (a descriptor is its position in the catalog)
server_page(n, page, per_page) ==
    LET first == (page - 1) * per_page + 1
        last == IF page * per_page < n THEN page * per_page ELSE n
    IN  [i \in 1..(IF last >= first THEN last - first + 1 ELSE 0) |-> first + i - 1]

\* str(e): an HTTPError raised by raise_for_status names the status and the URL;
\* a ConnectionError or a Timeout names its kind
exception_text(kind, url) ==
    IF kind \in HttpErrors
    THEN [kind |-> kind, org |-> url.org, page |-> url.page]
    ELSE [kind |-> kind, org |-> <<>>, page |-> 0]

FetchFailed(e) == [text |-> "Failed to fetch repositories", error |-> e]
FoundRepos(n) == [text |-> "Found repositories", n |-> n]

\* except requests.RequestException: print and sys.exit(1)
\* (where the run goes, its exit status, what it prints)
request_exception_handler_continue(e) ==
    [pc |-> "fetch", exit |-> -1, out |-> <<FetchFailed(e)>>]

request_exception_handler_silent(e) ==
    [pc |-> "exited", exit |-> 1, out |-> <<>>]

request_exception_handler(e) ==
    [pc |-> "exited", exit |-> 1, out |-> <<FetchFailed(e)>>]

\* if not repo_data: break
is_last_page_short(repo_data) == Len(repo_data) < PerPage

is_last_page(repo_data) == repo_data = <<>>

\* a counter that leaves a page out
next_page_skipping(page) == page + 2

\* page_number += 1
next_page(page) == page + 1

\* One turn of the while loop whose request raises a RequestException
FetchPageFails ==
    /\ pc = "fetch"
    /\ \E kind \in RequestExceptions :
         LET url == page_url(org_name, page_number)
             h == request_exception_handler(exception_text(kind, url))
         IN  /\ requests' = Append(requests, [url |-> url, result |-> kind])
             /\ console' = console \o h.out
             /\ exit_code' = h.exit
             /\ pc' = h.pc
    /\ UNCHANGED <<catalog_size, page_number, repositories, all_repos>>
    /\ UNCHANGED <<sandboxVars, selectVars, cloneVars>>
    /\ UNCHANGED abiVars

\* One turn of the while loop whose response holds descriptors
FetchPageData ==
    /\ pc = "fetch"
    /\ LET url == page_url(org_name, page_number)
           repo_data == server_page(catalog_size, url.page, url.per_page)
       IN  /\ ~is_last_page(repo_data)
           /\ requests' = Append(requests, [url |-> url, result |-> "ok"])
           /\ repositories' = repositories \o repo_data
           /\ page_number' = next_page(page_number)
    /\ UNCHANGED <<pc, exit_code, console, catalog_size, all_repos>>
    /\ UNCHANGED <<sandboxVars, selectVars, cloneVars>>
    /\ UNCHANGED abiVars

\* The turn of the while loop that breaks, and the return to the caller
FetchPageLast ==
    /\ pc = "fetch"
    /\ LET url == page_url(org_name, page_number)
           repo_data == server_page(catalog_size, url.page, url.per_page)
       IN  /\ is_last_page(repo_data)
           /\ requests' = Append(requests, [url |-> url, result |-> "ok"])
           /\ all_repos' = repositories
           /\ console' = Append(console, FoundRepos(Len(repositories)))
           /\ pc' = "select"
    /\ UNCHANGED <<exit_code, catalog_size, page_number, repositories>>
    /\ UNCHANGED <<sandboxVars, selectVars, cloneVars>>
    /\ UNCHANGED abiVars

NextFetch == FetchPageFails \/ FetchPageData \/ FetchPageLast

InitFetch ==
    /\ pc = "fetch"
    /\ base_dir = <<"w">>
    /\ org_name \in OrgNames
    /\ org_dir = org_name
    /\ org_path = path_join(path_join(CurrentDir, base_dir), org_dir)
    /\ dirs = makedirs(org_path, {<<"/">>, CurrentDir}, CurrentDir)
    /\ made = dirs \ {<<"/">>, CurrentDir}
    /\ cwd = org_path
    /\ repos_file = NoReposFile
    /\ remote_trees = RunTrees
    /\ exit_code = -1
    /\ console = <<>>
    /\ catalog_size \in 0..MaxCatalog
    /\ page_number = 1
    /\ repositories = <<>>
    /\ requests = <<>>
    /\ all_repos = <<>>
    /\ NotSelecting
    /\ NotCloning
    /\ AbiIdle

SpecFetch == InitFetch /\ [][NextFetch]_vars

-----------------------------------------------------------------------------
(* get_selected_repos *)

InputChars == {"1", "2", ",", "a"}

InputStrings(n) == UNION {[1..k -> InputChars] : k \in 0..n}

Digits == {"0", "1", "2", "3", "4", "5", "6", "7", "8", "9"}

DigitValue(c) ==
    CASE c = "0" -> 0 [] c = "1" -> 1 [] c = "2" -> 2 [] c = "3" -> 3
      [] c = "4" -> 4 [] c = "5" -> 5 [] c = "6" -> 6 [] c = "7" -> 7
      [] c = "8" -> 8 [] c = "9" -> 9

\* str.strip, of blanks
RECURSIVE strip(_)
strip(s) ==
    IF s = <<>> THEN s
    ELSE IF Head(s) = " " THEN strip(Tail(s))
    ELSE IF s[Len(s)] = " " THEN strip(SubSeq(s, 1, Len(s) - 1))
    ELSE s

\* the digits of a stripped token, its sign taken off
unsigned(t) == IF t # <<>> /\ t[1] \in {"+", "-"} THEN Tail(t) ELSE t

\* int(token) does not raise ValueError: an optional sign and at least one digit
is_int_literal(t) ==
    /\ unsigned(t) # <<>>
    /\ \A i \in 1..Len(unsigned(t)) : unsigned(t)[i] \in Digits

RECURSIVE digits_value(_)
digits_value(d) ==
    IF d = <<>> THEN 0
    ELSE 10 * digits_value(SubSeq(d, 1, Len(d) - 1)) + DigitValue(d[Len(d)])

\* int(token)
int_of(t) ==
    IF t[1] = "-" THEN 0 - digits_value(unsigned(t)) ELSE digits_value(unsigned(t))

\* the tokens of an answer: i.strip() for i in indices_input.split(",")
tokens_of(answer) ==
    [i \in 1..Len(split(answer, ",")) |-> strip(split(answer, ",")[i])]

InvalidInput == Line("Invalid input. Please enter comma-separated numbers.")
OutOfRange == Line("Some numbers are out of range. Please try again.")

\* One turn of the prompt loop on the tokens of an answer, for a catalog of n:
\* the list to return, or the message to print before asking again
read_indices_skipping(tokens, n) ==
    IF \A i \in 1..Len(tokens) :
           is_int_literal(tokens[i]) => (0 <= int_of(tokens[i]) - 1 /\ int_of(tokens[i]) - 1 < n)
    THEN [returned |-> TRUE,
          selected |-> [i \in 1..Len(SelectSeq(tokens, is_int_literal)) |->
                            int_of(SelectSeq(tokens, is_int_literal)[i]) - 1],
          out |-> <<>>]
    ELSE [returned |-> FALSE, selected |-> <<>>, out |-> <<OutOfRange>>]

\* a range test that lets the number one past the last row through
read_indices_inclusive(tokens, n) ==
    IF \E i \in 1..Len(tokens) : ~is_int_literal(tokens[i])
    THEN [returned |-> FALSE, selected |-> <<>>, out |-> <<InvalidInput>>]
    ELSE IF \A i \in 1..Len(tokens) :
                0 <= int_of(tokens[i]) - 1 /\ int_of(tokens[i]) - 1 <= n
    THEN [returned |-> TRUE,
          selected |-> [i \in 1..Len(tokens) |-> int_of(tokens[i]) - 1],
          out |-> <<>>]
    ELSE [returned |-> FALSE, selected |-> <<>>, out |-> <<OutOfRange>>]

read_indices(tokens, n) ==
    IF \E i \in 1..Len(tokens) : ~is_int_literal(tokens[i])
    THEN [returned |-> FALSE, selected |-> <<>>, out |-> <<InvalidInput>>]
    ELSE IF \A i \in 1..Len(tokens) :
                0 <= int_of(tokens[i]) - 1 /\ int_of(tokens[i]) - 1 < n
    THEN [returned |-> TRUE,
          selected |-> [i \in 1..Len(tokens) |-> int_of(tokens[i]) - 1],
          out |-> <<>>]
    ELSE [returned |-> FALSE, selected |-> <<>>, out |-> <<OutOfRange>>]

\* docs_dir = os.path.join(current_dir, "docs"); os.makedirs(docs_dir, exist_ok=True)
docs_dir == path_join(CurrentDir, <<"d", "o", "c", "s">>)

\* What follows the return of get_selected_repos, up to the clone loop
EnterCloneLoop(selected) ==
    /\ selected_indices' = selected
    /\ dirs' = makedirs(docs_dir, dirs, cwd)
    /\ made' = made \cup (makedirs(docs_dir, dirs, cwd) \ dirs)
    /\ pc' = "clone"
    /\ UNCHANGED <<base_dir, org_dir, org_name, cwd, org_path, exit_code>>
    /\ UNCHANGED <<repos_file, remote_trees, fetchVars, cloneVars>>
    /\ UNCHANGED abiVars

\* a range that starts at 1
all_indices_from_one(n) == [i \in 1..n |-> i]

\* range(len(all_repos))
all_indices(n) == [i \in 1..n |-> i - 1]

\* The operator declines to select: return range(len(all_repos))
SelectAll ==
    /\ pc = "select"
    /\ EnterCloneLoop(all_indices(Len(all_repos)))
    /\ UNCHANGED <<console, indices_input, prompts>>

\* The operator asks to select: the table is printed and the prompt loop entered
SelectSpecific ==
    /\ pc = "select"
    /\ pc' = "prompt"
    /\ console' = Append(console, [text |-> "Repository table", n |-> Len(all_repos)])
    /\ UNCHANGED <<exit_code, sandboxVars, fetchVars, selectVars, cloneVars>>
    /\ UNCHANGED abiVars

\* The operator's answer passes both tests: get_selected_repos returns
PromptReturns ==
    /\ pc = "prompt"
    /\ prompts < MaxPrompts
    /\ \E answer \in InputStrings(MaxInputLen) :
         \E r \in {read_indices(tokens_of(answer), Len(all_repos))} :
            /\ r.returned
            /\ indices_input' = answer
            /\ prompts' = prompts + 1
            /\ EnterCloneLoop(r.selected)
            /\ UNCHANGED console

\* The operator's answer is turned down: a message, and the prompt again
PromptAgain ==
    /\ pc = "prompt"
    /\ prompts < MaxPrompts
    /\ \E answer \in InputStrings(MaxInputLen) :
         \E r \in {read_indices(tokens_of(answer), Len(all_repos))} :
            /\ ~r.returned
            /\ indices_input' = answer
            /\ prompts' = prompts + 1
            /\ console' = console \o r.out
    /\ UNCHANGED <<pc, exit_code, selected_indices>>
    /\ UNCHANGED <<sandboxVars, fetchVars, cloneVars>>
    /\ UNCHANGED abiVars

NextSelect == SelectAll \/ SelectSpecific \/ PromptReturns \/ PromptAgain

\* The listing followed by the plan of an operator who declines to select
NextPlan == NextFetch \/ SelectAll

SpecPlan == InitFetch /\ [][NextPlan]_vars

-----------------------------------------------------------------------------
(* clone_and_process_repo and the clone loop of clone_organization_repos *)

\* What the clone of one repository and the harvest of its README can end in:
\*   "copied"       the clone succeeds, a README is found and copied
\*   "no_readme"    the clone succeeds, find_readme returns None
\*   "clone_failed" the clone exits non-zero (subprocess.CalledProcessError)
\*   "copy_failed"  the clone succeeds, a README is found, shutil.copy raises OSError
CloneResults == {"copied", "no_readme", "clone_failed", "copy_failed"}

\* repo["name"] of a descriptor of the listing: names are unique in an organization
RECURSIVE decimal(_)
decimal(n) ==
    IF n < 10 THEN <<CHOOSE c \in Digits : DigitValue(c) = n>>
    ELSE decimal(n \div 10) \o <<CHOOSE c \in Digits : DigitValue(c) = n % 10>>

name_of(repo) == <<"r">> \o decimal(repo)

URL_PREFIX == <<"h", "t", "t", "p", "s", ":", "/", "/", "g", "i", "t", "h", "u", "b", ".", "c", "o", "m", "/">>
DOT_GIT == <<".", "g", "i", "t">>

\* repo["clone_url"] of a descriptor of the listing
clone_url_of(org, repo) == URL_PREFIX \o org \o <<"/">> \o name_of(repo) \o DOT_GIT

\* The clone command (git clone, gh repo clone) leaves the repository in a
\* directory of its name, inside the directory the command runs in; the code
\* looks for it there (repo_path = os.path.join(org_path, repo_name))
clone_dir(wd, repo_name) == realdir(path_join(wd, repo_name), wd)

\* the clone command refuses a destination that is there already (and not empty)
CanClone(wd, repo_name, fs) == clone_dir(wd, repo_name) \notin fs

PossibleResults(wd, repo_name, fs) ==
    IF CanClone(wd, repo_name, fs) THEN CloneResults ELSE {"clone_failed"}

\* the tree of a clone that failed: nothing
NoTree == [files |-> {}, order |-> <<>>]

PossibleTrees(result, trees) == IF result = "clone_failed" THEN {NoTree} ELSE trees

README_SUFFIX == <<"_", "R", "E", "A", "D", "M", "E", ".", "m", "d">>

\* readme_dest = os.path.join(docs_dir, f"{repo_name}_README.md")
readme_dest_of(docs, repo_name) == path_join(docs, repo_name \o README_SUFFIX)

\* the record of what really happened to the entry
Outcome(index, result, repo_ref, repo_name, tree, repo_path, docs) ==
    [index |-> index,
     repo_ref |-> repo_ref,
     cloned |-> result # "clone_failed",
     readme_found |-> result \in {"copied", "copy_failed"},
     copied |-> result = "copied",
     repo_name |-> repo_name,
     tree |-> tree,
     readme_src |-> IF result = "clone_failed" THEN NoPath
                    ELSE find_readme(repo_path, tree),
     readme_dest |-> IF result \in {"copied", "copy_failed"}
                     THEN readme_dest_of(docs, repo_name) ELSE NoPath]

\* the result agrees with what find_readme returns on the tree cloned
ResultOnTree(o) ==
    o.cloned => (o.readme_found <=> o.readme_src # NoPath)

\* shutil.copy(readme_src, readme_dest): the destination is written over
copy_to(fs_files, o) ==
    IF o.copied
    THEN {f \in fs_files : f.path # o.readme_dest}
           \cup {[path |-> o.readme_dest, src |-> o.readme_src, of |-> o.index]}
    ELSE fs_files

\* clone_and_process_repo: the value returned ("raise": the exception leaves it)
clone_and_process_repo(result) ==
    CASE result = "copied" -> "True"
      [] result = "no_readme" -> "False"
      [] result = "clone_failed" -> "False"
      [] result = "copy_failed" -> "raise"

clone_message(index, result) ==
    [text |-> CASE result = "copied" -> "Copied README"
                [] result = "no_readme" -> "No README.md found"
                [] result = "clone_failed" -> "Failed to clone"
                [] result = "copy_failed" -> "An error occurred",
     n |-> index + 1]

\* What the clone of an entry does to the file system
CloneEffects(o, wd) ==
    /\ dirs' = IF o.cloned THEN dirs \cup {clone_dir(wd, o.repo_name)} ELSE dirs
    /\ made' = IF o.cloned THEN made \cup {clone_dir(wd, o.repo_name)} ELSE made
    /\ files' = copy_to(files, o)

\* One turn of the for loop over selected_indices
\* a loop that counts the clones that worked and forgets those that failed
clone_counts_forgetting_failures(returned) ==
    [successful |-> IF returned = "True" THEN 1 ELSE 0,
     processed |-> IF returned = "True" THEN 1 ELSE 0,
     failed |-> 0]

\* what one turn of the loop adds to the three counters:
\* if clone_and_process_repo(...): successful += 1, processed += 1
\* else: failed += 1; nothing when the call raises
clone_counts(returned) ==
    [successful |-> IF returned = "True" THEN 1 ELSE 0,
     processed |-> IF returned = "True" THEN 1 ELSE 0,
     failed |-> IF returned = "False" THEN 1 ELSE 0]

CloneNext ==
    /\ pc = "clone"
    /\ position < Len(selected_indices)
    /\ position' = position + 1
    /\ \E index \in {selected_indices[position + 1]} :
         IF index < 0 \/ index >= Len(all_repos)
         THEN /\ console' = Append(console, [text |-> "Index is out of range. Skipping.",
                                             n |-> index + 1])
              /\ UNCHANGED <<pc, exit_code, successful_clones, failed_clones,
                             processed_readmes, outcomes, dirs, made, files>>
         ELSE \E repo_name \in {name_of(all_repos[index + 1])} :
              \E repo_url \in {clone_url_of(org_name, all_repos[index + 1])} :
              \E result \in PossibleResults(cwd, repo_name, dirs) :
              \E tree \in PossibleTrees(result, remote_trees) :
              \E o \in {Outcome(index, result, repo_url, repo_name, tree,
                                path_join(org_path, repo_name), docs_dir)} :
              \E returned \in {clone_and_process_repo(result)} :
              \E counts \in {clone_counts(returned)} :
                  /\ ResultOnTree(o)
                  /\ outcomes' = Append(outcomes, o)
                  /\ CloneEffects(o, cwd)
                  /\ console' = Append(console, clone_message(index, result))
                  /\ successful_clones' = successful_clones + counts.successful
                  /\ processed_readmes' = processed_readmes + counts.processed
                  /\ failed_clones' = failed_clones + counts.failed
                  /\ pc' = IF returned = "raise" THEN "exited" ELSE pc
                  /\ exit_code' = IF returned = "raise" THEN 1 ELSE exit_code
    /\ UNCHANGED <<base_dir, org_dir, org_name, cwd, org_path, repos_file, remote_trees>>
    /\ UNCHANGED <<fetchVars, selectVars>>
    /\ UNCHANGED abiVars

\* The final summary, after the last turn of the loop
Summary ==
    /\ pc = "clone"
    /\ position = Len(selected_indices)
    /\ console' = console \o
          << [text |-> "Successfully cloned", n |-> successful_clones],
             [text |-> "Failed to clone", n |-> failed_clones],
             [text |-> "Processed READMEs", n |-> processed_readmes],
             [text |-> "All selected repositories have been processed", n |-> 0] >>
    /\ pc' = "done"
    /\ exit_code' = 0
    /\ UNCHANGED <<sandboxVars, fetchVars, selectVars, cloneVars>>
    /\ UNCHANGED abiVars

NextClone == CloneNext \/ Summary

-----------------------------------------------------------------------------
(* clone_repos_from_file *)

\* repos = [line.strip() for line in file if line.strip()]
repos_of(lines) ==
    SelectSeq([i \in 1..Len(lines) |-> strip(lines[i])], LAMBDA line : line # <<>>)

\* line.split()[-1]: the last run of non-blank characters
last_word(line) ==
    SelectSeq(split(line, " "), LAMBDA w : w # <<>>)[
        Len(SelectSeq(split(line, " "), LAMBDA w : w # <<>>))]

\* str.replace(old, ""): every occurrence of old is taken out, left to right
RECURSIVE remove_all(_, _)
remove_all(s, old) ==
    IF s = <<>> THEN s
    ELSE IF startswith(s, old) THEN remove_all(SubSeq(s, Len(old) + 1, Len(s)), old)
    ELSE <<Head(s)>> \o remove_all(Tail(s), old)

\* if repo_ref.endswith(".git"): repo_ref = repo_ref[:-4]
without_dot_git(ref) ==
    IF endswith(ref, DOT_GIT) THEN SubSeq(ref, 1, Len(ref) - Len(DOT_GIT)) ELSE ref

\* the branch taken by a reference that starts with the web URL
without_url(ref) ==
    IF startswith(ref, URL_PREFIX)
    THEN without_dot_git(remove_all(ref, URL_PREFIX))
    ELSE ref

\* if repo_ref.startswith("@"): repo_ref = repo_ref[1:]
without_at(ref) == IF startswith(ref, <<"@">>) THEN Tail(ref) ELSE ref

\* the reference handed to gh repo clone
repo_ref_of(line) == without_at(without_url(last_word(line)))

\* repo_name = repo_ref.split("/")[-1]
repo_name_of(ref) == split(ref, "/")[Len(split(ref, "/"))]

DOCS == <<"d", "o", "c", "s">>

\* docs_dir = os.path.join(os.getcwd(), "docs"), made when a README was found
file_docs_dir(wd) == path_join(wd, DOCS)

docs_made(o, docs, fs, wd) == IF o.readme_found THEN makedirs(docs, fs, wd) ELSE fs

\* One turn of the for loop over the lines of the file
FileCloneNext ==
    /\ pc = "file"
    /\ position < Len(repos_of(repos_file.lines))
    /\ position' = position + 1
    /\ \E repo_ref \in {repo_ref_of(repos_of(repos_file.lines)[position + 1])} :
       \E repo_name \in {repo_name_of(repo_ref)} :
       \E result \in PossibleResults(org_path, repo_name, dirs) :
       \E tree \in PossibleTrees(result, remote_trees) :
       \E o \in {Outcome(position, result, repo_ref, repo_name, tree,
                         path_join(org_path, repo_name), file_docs_dir(cwd))} :
       \E fs \in {docs_made(o, file_docs_dir(cwd), dirs, cwd)} :
           /\ ResultOnTree(o)
           /\ outcomes' = Append(outcomes, o)
           /\ dirs' = IF o.cloned THEN fs \cup {clone_dir(org_path, repo_name)} ELSE fs
           /\ made' = made \cup (dirs' \ dirs)
           /\ files' = copy_to(files, o)
           /\ console' = Append(console, [text |-> CASE result = "copied" -> "Processed"
                                                     [] result = "no_readme" -> "No README.md found"
                                                     [] result = "clone_failed" -> "Failed to clone"
                                                     [] result = "copy_failed" -> "An error occurred",
                                          n |-> position + 1])
           /\ successful_clones' = successful_clones + (IF o.cloned THEN 1 ELSE 0)
           /\ processed_readmes' = processed_readmes + (IF o.copied THEN 1 ELSE 0)
           /\ failed_clones' = failed_clones + (IF o.cloned THEN 0 ELSE 1)
           /\ pc' = IF result = "copy_failed" THEN "exited" ELSE pc
           /\ exit_code' = IF result = "copy_failed" THEN 1 ELSE exit_code
    /\ UNCHANGED <<base_dir, org_dir, org_name, cwd, org_path, repos_file, remote_trees>>
    /\ UNCHANGED <<fetchVars, selectVars>>
    /\ UNCHANGED abiVars

\* The summary of clone_repos_from_file; clone_organization_repos then returns
FileSummary ==
    /\ pc = "file"
    /\ position = Len(repos_of(repos_file.lines))
    /\ console' = console \o
          << [text |-> "Successfully cloned", n |-> successful_clones],
             [text |-> "Failed to clone", n |-> failed_clones],
             [text |-> "Processed READMEs", n |-> processed_readmes] >>
    /\ pc' = "done"
    /\ exit_code' = 0
    /\ UNCHANGED <<sandboxVars, fetchVars, selectVars, cloneVars>>
    /\ UNCHANGED abiVars

NextFile == FileCloneNext \/ FileSummary

-----------------------------------------------------------------------------
(* The script's entry point: the handler of KeyboardInterrupt *)

Cancelled == Line("Operation cancelled by user")

\* a handler that prints the message and lets the loop go on
keyboard_interrupt_handler_resume(at) ==
    [out |-> <<Cancelled>>, exit |-> -1, pc |-> at]

\* except KeyboardInterrupt: what is printed, the status, and where the run goes
keyboard_interrupt_handler(at) ==
    [out |-> <<Cancelled>>, exit |-> 1, pc |-> "exited"]

\* The operator interrupts the run while clone_organization_repos is at work.
\* A clone under way is ended with the run; its entry is not counted.
KeyboardInterrupt ==
    /\ pc \in {"start", "fetch", "select", "prompt", "clone", "file"}
    /\ \E h \in {keyboard_interrupt_handler(pc)} :
           /\ console' = console \o h.out
           /\ exit_code' = h.exit
           /\ pc' = h.pc
    /\ UNCHANGED <<sandboxVars, fetchVars, selectVars, cloneVars>>
    /\ UNCHANGED abiVars

-----------------------------------------------------------------------------
(* clone_organization_repos: the whole run *)

RunBaseDirs == {<<"w">>, <<".", ".">>}
RunOrgDirs == {<<>>, <<"/">>}

\* The reference files of a whole run
RunReposFiles ==
    { <<<<"a", "/", "x">>, <<>>, <<"b", "/", "x">>>>,
      << <<"g", "h", " ", "r", "e", "p", "o", " ", "c", "l", "o", "n", "e", " ">>
            \o URL_PREFIX \o <<"o", "/", "x", ".", "g", "i", "t">>,
         <<" ", "@", "o", "/", "y">> >> }

InitRun ==
    /\ pc = "start"
    /\ base_dir \in RunBaseDirs
    /\ org_dir \in RunOrgDirs
    /\ org_name = TARGET_ORG_NAME
    /\ dirs = {<<"/">>, CurrentDir}
    /\ made = {}
    /\ cwd = CurrentDir
    /\ org_path = NoPath
    /\ repos_file \in {NoReposFile} \cup [given : {TRUE}, lines : RunReposFiles]
    /\ remote_trees = RunTrees
    /\ exit_code = -1
    /\ console = <<>>
    /\ catalog_size \in 0..MaxRunCatalog
    /\ page_number = 1
    /\ repositories = <<>>
    /\ requests = <<>>
    /\ all_repos = <<>>
    /\ NotSelecting
    /\ NotCloning
    /\ AbiIdle

FileNotice == Line("Cloning repositories from file")

\* a run that goes on to the listing whether or not a file was given
mode_of_listing(file) == "fetch"

\* if repos_file: ... return
mode_of(file) == IF file.given THEN "file" ELSE "fetch"

\* org_dir = org_dir or org_name; setup_directories; os.chdir(org_path);
\* then the reference file, if one was given, or the listing
StartRun ==
    /\ pc = "start"
    /\ org_dir' = IF org_dir = <<>> THEN org_name ELSE org_dir
    /\ \E r \in {setup_directories(base_dir, org_dir', cwd, dirs)} :
       \E mode \in {mode_of(repos_file)} :
           /\ dirs' = r.fs
           /\ made' = made \cup (r.fs \ dirs)
           /\ org_path' = r.org_path
           /\ exit_code' = r.exit
           /\ console' = console \o r.out
                           \o (IF r.exit = -1 /\ mode = "file" THEN <<FileNotice>> ELSE <<>>)
           /\ cwd' = IF r.exit = -1 THEN realdir(r.org_path, cwd) ELSE cwd
           /\ pc' = IF r.exit = -1 THEN mode ELSE "exited"
    /\ UNCHANGED <<base_dir, org_name, repos_file, remote_trees>>
    /\ UNCHANGED <<fetchVars, selectVars, cloneVars>>
    /\ UNCHANGED abiVars

NextRun ==
    StartRun \/ NextFetch \/ NextSelect \/ NextClone \/ NextFile \/ KeyboardInterrupt

SpecRun == InitRun /\ [][NextRun]_vars

-----------------------------------------------------------------------------
(* The harvest on drawn trees: the clone loop of a catalog of one or two     *)
(* repositories that hold the same tree, all of it selected                  *)

InitReadme ==
    /\ pc = "clone"
    /\ base_dir = <<"w">>
    /\ org_name = TARGET_ORG_NAME
    /\ org_dir = org_name
    /\ org_path = path_join(path_join(CurrentDir, base_dir), org_dir)
    /\ dirs = makedirs(docs_dir, makedirs(org_path, {<<"/">>, CurrentDir}, CurrentDir),
                       CurrentDir)
    /\ made = dirs \ {<<"/">>, CurrentDir}
    /\ cwd = org_path
    /\ repos_file = NoReposFile
    /\ \E tree \in Trees(MaxFiles) : remote_trees = {tree}
    /\ exit_code = -1
    /\ catalog_size \in {1, 2}
    /\ page_number = 2
    /\ repositories = server_page(catalog_size, 1, PerPage)
    /\ requests = <<[url |-> page_url(org_name, 1), result |-> "ok"],
                    [url |-> page_url(org_name, 2), result |-> "ok"]>>
    /\ all_repos = repositories
    /\ console = <<FoundRepos(catalog_size)>>
    /\ indices_input = NoInput
    /\ prompts = 0
    /\ selected_indices = all_indices(catalog_size)
    /\ NotCloning
    /\ AbiIdle

SpecReadme == InitReadme /\ [][NextClone]_vars

-----------------------------------------------------------------------------
(* The reading of one line of a reference file, on drawn lines: the loop of  *)
(* clone_repos_from_file over a file of one line                             *)

\* What the lines are put together from
Pieces == {URL_PREFIX, DOT_GIT, <<"@">>, <<"/">>, <<" ">>, <<"x">>}

RECURSIVE RefLines(_)
RefLines(n) ==
    IF n = 0 THEN {<<>>}
    ELSE RefLines(n - 1) \cup {line \o piece : line \in RefLines(n - 1), piece \in Pieces}

InitRefs ==
    /\ pc = "file"
    /\ base_dir = <<"w">>
    /\ org_name = TARGET_ORG_NAME
    /\ org_dir = org_name
    /\ org_path = path_join(path_join(CurrentDir, base_dir), org_dir)
    /\ dirs = makedirs(org_path, {<<"/">>, CurrentDir}, CurrentDir)
    /\ made = dirs \ {<<"/">>, CurrentDir}
    /\ cwd = org_path
    /\ \E line \in RefLines(MaxPieces) : repos_file = [given |-> TRUE, lines |-> <<line>>]
    /\ remote_trees = [files : {{<<<<"R", "E", "A", "D", "M", "E", ".", "m", "d">>>>}}, order : {<<<<"R", "E", "A", "D", "M", "E", ".", "m", "d">>>>}]
    /\ exit_code = -1
    /\ console = <<FileNotice>>
    /\ catalog_size = 0
    /\ page_number = 1
    /\ repositories = <<>>
    /\ requests = <<>>
    /\ all_repos = <<>>
    /\ NotSelecting
    /\ NotCloning
    /\ AbiIdle

SpecRefs == InitRefs /\ [][NextFile]_vars

-----------------------------------------------------------------------------
(* gen_abi.py: ABIGenerator.fetch_abi_from_etherscan *)

\* self.NETWORKS
NETWORKS ==
    [n \in {"mainnet", "goerli", "sepolia"} |->
        CASE n = "mainnet" -> "https://api.etherscan.io/api"
          [] n = "goerli" -> "https://api-goerli.etherscan.io/api"
          [] n = "sepolia" -> "https://api-sepolia.etherscan.io/api"]

\* api_url = self.NETWORKS.get(network, self.NETWORKS["mainnet"])
api_url(net) == IF net \in DOMAIN NETWORKS THEN NETWORKS[net] ELSE NETWORKS["mainnet"]

\* params = {"module": ..., "action": ..., "address": ..., "apikey": ...}
params(address, key) ==
    [module |-> "contract", action |-> "getabi", address |-> address, apikey |-> key]

max_retries == 3

\* The arguments and the environment of the calls drawn
ApiKeys == {"", "KEY"}
Addresses == {"0x7a250d5630B4cF539739dF2C5dAcb4c659F2488D",
              "0xC02aaA39b223FE8D0A0e5C4F27eAD9083C756Cc2"}
NetworkArgs == {"mainnet", "sepolia", "holesky"}

\* json.loads on the texts a "result" field may hold: the list, or the
\* JSONDecodeError raised on a text that is not JSON
ResultTexts == {"[]", "[{}]", "Contract source code not verified"}
json_loads(text) ==
    CASE text = "[]" -> [raised |-> FALSE, value |-> <<>>]
      [] text = "[{}]" -> [raised |-> FALSE, value |-> <<{}>>]
      [] OTHER -> [raised |-> TRUE, value |-> <<>>]

\* What the server may send back: a body that is not JSON, or an object with
\* some of the keys "status", "message", "result"
NotJson == [valid |-> FALSE, keys |-> {}, status |-> "", message |-> "", result |-> ""]
Bodies ==
    {NotJson} \cup
    [valid : {TRUE},
     keys : {{"status"}, {"status", "result"}, {"status", "message", "result"}},
     status : {"0", "1"},
     message : {"OK", "NOTOK"},
     result : ResultTexts]

\* What requests.get may meet: no answer at all, or an answer with a status code
Responses ==
    {[sent |-> FALSE, status_code |-> 0, body |-> NotJson]} \cup
    [sent : {TRUE}, status_code : {200, 503}, body : Bodies]

Raise(e) == [kind |-> "raise", e |-> e, value |-> <<>>, out |-> <<>>]

\* The body of the try block on one response: the value returned, or the
\* exception raised
\*   response = requests.get(api_url, params=params)
\*   response.raise_for_status()
\*   data = response.json()
\*   if data["status"] == "1" and data["message"] == "OK":
\*       return json.loads(data["result"])
\*   else: print(... data['message']); return None
try_block(response) ==
    IF ~response.sent THEN Raise("ConnectionError")
    ELSE IF response.status_code >= 400 THEN Raise("HTTPError")
    ELSE IF ~response.body.valid THEN Raise("JSONDecodeError")
    ELSE IF "status" \notin response.body.keys THEN Raise("KeyError")
    ELSE IF "message" \notin response.body.keys THEN Raise("KeyError")
    ELSE IF response.body.status = "1" /\ response.body.message = "OK"
    THEN IF "result" \notin response.body.keys THEN Raise("KeyError")
         ELSE IF json_loads(response.body.result).raised THEN Raise("JSONDecodeError")
         ELSE [kind |-> "abi", e |-> "", value |-> json_loads(response.body.result).value,
               out |-> <<>>]
    ELSE [kind |-> "not_ok", e |-> "", value |-> <<>>,
          out |-> <<[text |-> "Error fetching ABI", a |-> response.body.message, b |-> ""]>>]

\* a handler that retries after every failure
may_retry_always(n) == TRUE

\* if attempt < max_retries - 1
may_retry(n) == n < max_retries - 1

\* wait_time = 2 ** attempt
wait_time(n) == 2 ^ n

\* one requests.get of the call, as abi_requests records it
Request(outcome) ==
    [url |-> api_url(network), params |-> params(contract_address, api_key),
     attempt |-> attempt, outcome |-> outcome]

\* The call, when no API key is configured: a warning, None, no request
CallWithoutKey ==
    /\ abi_pc = "idle"
    /\ api_key = ""
    /\ contract_address' \in Addresses
    /\ network' \in NetworkArgs
    /\ abi_console' = Append(abi_console,
           [text |-> "No Etherscan API key provided. Skipping fetch.", a |-> "", b |-> ""])
    /\ abi_result' = ReturnedNone
    /\ abi_pc' = "returned"
    /\ UNCHANGED <<api_key, attempt, abi_requests, sleeps>>
    /\ UNCHANGED <<pc, exit_code, console, sandboxVars, fetchVars, selectVars, cloneVars>>

\* The call, with an API key: the loop is entered with attempt = 0
CallWithKey ==
    /\ abi_pc = "idle"
    /\ api_key # ""
    /\ contract_address' \in Addresses
    /\ network' \in NetworkArgs
    /\ attempt' = 0
    /\ abi_pc' = "request"
    /\ UNCHANGED <<api_key, abi_requests, sleeps, abi_console, abi_result>>
    /\ UNCHANGED <<pc, exit_code, console, sandboxVars, fetchVars, selectVars, cloneVars>>

\* A turn of the loop whose try block returns the ABI
AttemptReturnsAbi ==
    /\ abi_pc = "request"
    /\ \E response \in Responses :
       \E r \in {try_block(response)} :
           /\ r.kind = "abi"
           /\ abi_requests' = Append(abi_requests, Request("abi"))
           /\ abi_result' = ReturnedAbi(r.value)
           /\ abi_pc' = "returned"
    /\ UNCHANGED <<api_key, contract_address, network, attempt, sleeps, abi_console>>
    /\ UNCHANGED <<pc, exit_code, console, sandboxVars, fetchVars, selectVars, cloneVars>>

\* A turn of the loop whose response says the status is not OK: the message
\* is printed and None returned
AttemptNotOk ==
    /\ abi_pc = "request"
    /\ \E response \in Responses :
       \E r \in {try_block(response)} :
           /\ r.kind = "not_ok"
           /\ abi_requests' = Append(abi_requests, Request("not_ok"))
           /\ abi_console' = abi_console \o r.out
           /\ abi_result' = ReturnedNone
           /\ abi_pc' = "returned"
    /\ UNCHANGED <<api_key, contract_address, network, attempt, sleeps>>
    /\ UNCHANGED <<pc, exit_code, console, sandboxVars, fetchVars, selectVars, cloneVars>>

\* A turn of the loop whose try block raises, with a retry left: the handler
\* prints, sleeps wait_time seconds, and the for loop takes the next attempt
\* (or ends, and the function returns None, when range(max_retries) is used up)
AttemptRaisesRetry ==
    /\ abi_pc = "request"
    /\ may_retry(attempt)
    /\ \E response \in Responses :
       \E r \in {try_block(response)} :
           /\ r.kind = "raise"
           /\ abi_requests' = Append(abi_requests, Request(r.e))
    /\ abi_console' = Append(abi_console,
           [text |-> "Attempt failed, retrying", a |-> attempt + 1, b |-> wait_time(attempt)])
    /\ sleeps' = Append(sleeps, wait_time(attempt))
    /\ attempt' = attempt + 1
    /\ abi_pc' = IF attempt + 1 < max_retries THEN "request" ELSE "returned"
    /\ abi_result' = IF attempt + 1 < max_retries THEN abi_result ELSE ReturnedNone
    /\ UNCHANGED <<api_key, contract_address, network>>
    /\ UNCHANGED <<pc, exit_code, console, sandboxVars, fetchVars, selectVars, cloneVars>>

\* A turn of the loop whose try block raises, with no retry left: the handler
\* prints the error and returns None
AttemptRaisesLast ==
    /\ abi_pc = "request"
    /\ ~may_retry(attempt)
    /\ \E response \in Responses :
       \E r \in {try_block(response)} :
           /\ r.kind = "raise"
           /\ abi_requests' = Append(abi_requests, Request(r.e))
           /\ abi_console' = Append(abi_console,
                  [text |-> "Error fetching ABI for", a |-> contract_address, b |-> r.e])
    /\ abi_result' = ReturnedNone
    /\ abi_pc' = "returned"
    /\ UNCHANGED <<api_key, contract_address, network, attempt, sleeps>>
    /\ UNCHANGED <<pc, exit_code, console, sandboxVars, fetchVars, selectVars, cloneVars>>

NextAbi ==
    CallWithoutKey \/ CallWithKey \/ AttemptReturnsAbi \/ AttemptNotOk
        \/ AttemptRaisesRetry \/ AttemptRaisesLast

\* A generator just constructed, with or without an API key in the
\* environment; repo_ripper.py is not running
InitAbi ==
    /\ abi_pc = "idle"
    /\ api_key \in ApiKeys
    /\ contract_address = ""
    /\ network = ""
    /\ attempt = 0
    /\ abi_requests = <<>>
    /\ sleeps = <<>>
    /\ abi_console = <<>>
    /\ abi_result = NotReturned
    /\ pc = "start"
    /\ base_dir = <<"w">>
    /\ org_name = TARGET_ORG_NAME
    /\ org_dir = org_name
    /\ org_path = NoPath
    /\ dirs = {<<"/">>, CurrentDir}
    /\ made = {}
    /\ cwd = CurrentDir
    /\ repos_file = NoReposFile
    /\ remote_trees = {}
    /\ exit_code = -1
    /\ console = <<>>
    /\ catalog_size = 0
    /\ page_number = 1
    /\ repositories = <<>>
    /\ requests = <<>>
    /\ all_repos = <<>>
    /\ NotSelecting
    /\ NotCloning

SpecAbi == InitAbi /\ [][NextAbi]_vars

\* requests.get and time.sleep both come back (with a response, an exception,
\* or the time elapsed): a call that can take a step takes it
FairSpecAbi == SpecAbi /\ WF_vars(NextAbi)

-----------------------------------------------------------------------------
(* C1: whenever base_dir resolves to an absolute path that is not a lexical *)
(* descendant of the working directory, setup_directories fails and creates *)
(* no directory; and no directory outside the working directory is ever     *)
(* created.                                                                 *)
C1_SandboxContainment ==
    pc # "start" =>
        /\ ~IsDescendant(abspath(path_join(CurrentDir, base_dir), CurrentDir), CurrentDir)
               => (pc = "exited" /\ made = {})
        /\ \A d \in made : IsDescendant(d, CurrentDir)

(* C2: a failed containment check of base_dir or org_dir is fatal before    *)
(* any I/O: setup_directories never exits having created a directory.       *)
C2_FatalBeforeAnyIO ==
    (pc = "exited" /\ exit_code = 1) => made = {}

-----------------------------------------------------------------------------
(* Helpers of the claims about fetch_repositories *)

LastRequest == requests[Len(requests)]

\* the number of requests issued for page p
Attempts(p) == Cardinality({i \in 1..Len(requests) : requests[i].url.page = p})

\* the catalog in the order the hosting API serves it
Catalog == [i \in 1..catalog_size |-> i]

\* the requests were for pages 1, 2, 3, ... of the requested organization
PagesInOrder ==
    \A i \in 1..Len(requests) :
        requests[i].url = [org |-> org_name, page |-> i, per_page |-> PerPage]

(* C3, as claimed: for a catalog of k*100 + r repositories (0 <= r < 100)    *)
(* fetch_repositories issues exactly k+1 page requests and returns the       *)
(* k*100 + r descriptors in page order.                                      *)
C3_ExactlyKPlusOneRequests ==
    pc = "select" =>
        /\ Len(requests) = (catalog_size \div PerPage) + 1
        /\ all_repos = Catalog

(* C3, amended: fetch_repositories requests every page up to and including   *)
(* the first empty one, which is k+1 requests when r = 0 and k+2 requests    *)
(* when r > 0, and returns the k*100 + r descriptors in page order.          *)
C3_RequestsUntilEmptyPage ==
    pc = "select" =>
        /\ Len(requests) = (catalog_size \div PerPage)
                              + (IF catalog_size % PerPage = 0 THEN 1 ELSE 2)
        /\ PagesInOrder
        /\ all_repos = Catalog

C3_Witness ==
    /\ pc = "select"
    /\ catalog_size > PerPage
    /\ catalog_size % PerPage # 0
    /\ Len(requests) = 3

C5_NotFoundFailsImmediately ==
    (requests # <<>> /\ requests[1].result = "404 Client Error") =>
        /\ Len(requests) = 1
        /\ pc = "exited"
        /\ exit_code = 1
        /\ console # <<>>
        /\ console[Len(console)].text = "Failed to fetch repositories"
        /\ console[Len(console)].error.kind = "404 Client Error"
        /\ console[Len(console)].error.org = org_name
        /\ all_repos = <<>>

C5_Witness ==
    /\ requests # <<>>
    /\ requests[1].result = "404 Client Error"
    /\ org_name # TARGET_ORG_NAME
    /\ pc = "exited"

-----------------------------------------------------------------------------
(* Helpers of the claims about selection and the clone loop *)

\* the operator has answered the prompt, and every token of the answer is an integer
AnsweredWithIntegers ==
    /\ indices_input # NoInput
    /\ \A i \in 1..Len(tokens_of(indices_input)) : is_int_literal(tokens_of(indices_input)[i])

\* the operator has answered the prompt, and some token of the answer is no integer
AnsweredWithNonInteger ==
    /\ indices_input # NoInput
    /\ \E i \in 1..Len(tokens_of(indices_input)) : ~is_int_literal(tokens_of(indices_input)[i])

\* the 0-based indices an all-integer answer names, in input order
NamedIndices ==
    [i \in 1..Len(tokens_of(indices_input)) |-> int_of(tokens_of(indices_input)[i]) - 1]

InCatalog(index) == 0 <= index /\ index < Len(all_repos)

\* the number of entries taken up by the loop that satisfy P
CountOutcomes(P(_)) == Cardinality({i \in 1..Len(outcomes) : P(outcomes[i])})

\* the run was ended by the operator's interrupt
Interrupted == console # <<>> /\ console[Len(console)] = Cancelled

\* the 0-based positions of the plan's entries: the indices selected, or the
\* lines of the reference file
PlanIndices ==
    IF repos_file.given
    THEN [i \in 1..Len(repos_of(repos_file.lines)) |-> i - 1]
    ELSE selected_indices

\* the three counts of the summary that ends a run
SummaryCounts ==
    IF repos_file.given
    THEN SubSeq(console, Len(console) - 2, Len(console))
    ELSE SubSeq(console, Len(console) - 3, Len(console) - 1)

WasCloned(o) == o.cloned
WasNotCloned(o) == ~o.cloned
WasCopied(o) == o.copied

(* C7: in index-subset selection the out-of-range indices of an answer are   *)
(* skipped and the in-range ones kept in input order; planning is never      *)
(* turned down because of an out-of-range index.                             *)
C7_OutOfRangeIndicesSkipped ==
    AnsweredWithIntegers =>
        /\ pc # "prompt"
        /\ selected_indices = SelectSeq(NamedIndices, InCatalog)

C9_BatchNeverAborted ==
    /\ (pc = "exited" /\ ~Interrupted) => outcomes = <<>>
    /\ pc = "done" => [i \in 1..Len(outcomes) |-> outcomes[i].index] = PlanIndices

(* C10: the final summary reports the number of entries whose clone          *)
(* succeeded, the number whose clone failed, and the number whose README was *)
(* copied; a clone without a README counts as a successful clone.            *)
C10_SummaryCounts ==
    pc = "done" =>
        SummaryCounts =
            << [text |-> "Successfully cloned", n |-> CountOutcomes(WasCloned)],
               [text |-> "Failed to clone", n |-> CountOutcomes(WasNotCloned)],
               [text |-> "Processed READMEs", n |-> CountOutcomes(WasCopied)] >>

-----------------------------------------------------------------------------
(* Helpers of the claims about cancellation *)

\* the run is inside the clone batch, of either mode
InBatch == pc \in {"clone", "file"}

\* the three counts accumulated so far stand on the console, as a summary does
PartialSummaryPrinted ==
    \E i \in 1..(Len(console) - 2) :
        SubSeq(console, i, i + 2) =
            << [text |-> "Successfully cloned", n |-> successful_clones],
               [text |-> "Failed to clone", n |-> failed_clones],
               [text |-> "Processed READMEs", n |-> processed_readmes] >>

(* C11, as claimed: an operator interrupt during the clone batch stops the   *)
(* run before the next plan entry is started, and the partial summary (the   *)
(* counts accumulated so far) is still printed.                              *)
C11_InterruptPrintsPartialSummary ==
    [][ /\ pc # "exited"
        /\ (InBatch /\ Interrupted') =>
               /\ pc' = "exited"
               /\ outcomes' = outcomes
               /\ PartialSummaryPrinted' ]_vars

(* C11, amended: an operator interrupt during the clone batch stops the run  *)
(* before the next plan entry is started: no further entry is taken up, the  *)
(* run ends with status 1 and nothing runs after it. Only "Operation         *)
(* cancelled by user" is printed; the partial summary is not.                *)
C11_InterruptStopsWithoutSummary ==
    [][ /\ pc # "exited"
        /\ (InBatch /\ Interrupted') =>
               /\ pc' = "exited"
               /\ exit_code' = 1
               /\ outcomes' = outcomes
               /\ position' = position
               /\ console' = Append(console, Cancelled)
               /\ ~PartialSummaryPrinted' ]_vars

C11_Witness ==
    /\ Interrupted
    /\ ~repos_file.given
    /\ Len(outcomes) = 1
    /\ Len(selected_indices) = 2
    /\ successful_clones = 1

-----------------------------------------------------------------------------
(* Helpers of the claims about the layout on the file system *)

\* {workingDir}/{baseDir}/{orgDir}/{repoName}, from the directory of invocation
LayoutCloneDir(repo_name) ==
    realdir(path_join(path_join(path_join(CurrentDir, base_dir), org_dir), repo_name),
            CurrentDir)

\* {workingDir}/docs/{repoName}_README.md
LayoutDocsFile(repo_name) ==
    path_join(path_join(CurrentDir, DOCS), repo_name \o README_SUFFIX)

\* the README copies that stand on the file system, by path
WrittenPaths == {f.path : f \in files}

(* C12: in both catalog mode and reference-file mode every clone lands in    *)
(* {workingDir}/{baseDir}/{orgDir}/{repoName} and every harvested README is  *)
(* written to {workingDir}/docs/{repoName}_README.md, workingDir being the   *)
(* directory the process was invoked from.                                   *)
C12_LayoutUnderWorkingDir ==
    \A i \in 1..Len(outcomes) :
        /\ outcomes[i].cloned => LayoutCloneDir(outcomes[i].repo_name) \in made
        /\ outcomes[i].copied =>
              /\ outcomes[i].readme_dest = LayoutDocsFile(outcomes[i].repo_name)
              /\ LayoutDocsFile(outcomes[i].repo_name) \in WrittenPaths

-----------------------------------------------------------------------------
(* Helpers of the claims about the README harvest *)

\* the files of a tree, at any depth, whose name lower-cased is "readme.md"
ReadmeFiles(tree) == {p \in tree.files : lower(p[Len(p)]) = README_MD}

\* the last component of a path, and what stands before it
BaseName(path) == split(path, "/")[Len(split(path, "/"))]
DirName(path) == SubSeq(path, 1, Len(path) - Len(BaseName(path)) - 1)

(* C13: find_readme returns a path if and only if the tree of the cloned     *)
(* repository holds, at any depth, a file whose name lower-cased is          *)
(* "readme.md"; the path returned names such a file inside the tree, and the *)
(* file is copied to the docs directory as {repoName}_README.md.             *)
C13_FindReadmeAndCopy ==
    \A i \in 1..Len(outcomes) :
        outcomes[i].cloned =>
            /\ outcomes[i].readme_src # NoPath <=> ReadmeFiles(outcomes[i].tree) # {}
            /\ outcomes[i].readme_src # NoPath =>
                   \E p \in ReadmeFiles(outcomes[i].tree) :
                       outcomes[i].readme_src =
                           join_names(path_join(org_path, outcomes[i].repo_name), p)
            /\ outcomes[i].readme_found <=> outcomes[i].readme_src # NoPath
            /\ outcomes[i].copied =>
                   /\ BaseName(outcomes[i].readme_dest) = outcomes[i].repo_name \o README_SUFFIX
                   /\ DirName(outcomes[i].readme_dest) = docs_dir
                   /\ \E f \in files : /\ f.path = outcomes[i].readme_dest
                                       /\ f.src = outcomes[i].readme_src
            /\ (outcomes[i].readme_found /\ ~outcomes[i].copied) => exit_code = 1

C13_Witness ==
    /\ Len(outcomes) = 1
    /\ outcomes[1].copied
    /\ outcomes[1].tree.files = {<<<<"d">>, <<"R", "e", "a", "d", "m", "e", ".", "m", "d">>, <<"R", "e", "a", "d", "M", "e", ".", "M", "D">>>>, <<<<"r", "e", "a", "d", "m", "e", ".", "t", "x", "t">>>>}
    /\ pc = "done"

\* the docs directory of the run's mode
DocsDir == IF repos_file.given THEN file_docs_dir(cwd) ELSE docs_dir

\* the destination the code gives the README of an entry it has taken up
DestinationOf(o) == readme_dest_of(DocsDir, o.repo_name)

(* C14: README copies get collision-free names: two distinct plan entries    *)
(* (such as the references ownerA/x and ownerB/x of a reference file) never  *)
(* have the same destination in the docs directory, and no README copy is    *)
(* written over by the copy of another entry.                                *)
C14_CollisionFreeNames ==
    /\ \A i, j \in 1..Len(outcomes) :
           outcomes[i].repo_ref # outcomes[j].repo_ref =>
               DestinationOf(outcomes[i]) # DestinationOf(outcomes[j])
    /\ \A i \in 1..Len(outcomes) :
           outcomes[i].copied =>
               \E f \in files : f.path = outcomes[i].readme_dest /\ f.of = outcomes[i].index

-----------------------------------------------------------------------------
(* Helpers of the claims about the reference file *)

\* the last whitespace-delimited token of a line that is not blank: what
\* follows the last blank of the line, its blank ends taken off
LastToken(line) ==
    CHOOSE t \in {SubSeq(strip(line), k, Len(strip(line))) : k \in 1..Len(strip(line))} :
        /\ \A i \in 1..Len(t) : t[i] # " "
        /\ Len(t) = Len(strip(line)) \/ strip(line)[Len(strip(line)) - Len(t)] = " "

\* a reference with the web URL prefix stripped, then a trailing ".git" removed
UrlStripped(ref) ==
    IF endswith(SubSeq(ref, Len(URL_PREFIX) + 1, Len(ref)), DOT_GIT)
    THEN SubSeq(ref, Len(URL_PREFIX) + 1, Len(ref) - Len(DOT_GIT))
    ELSE SubSeq(ref, Len(URL_PREFIX) + 1, Len(ref))

\* a leading "@" stripped
AtStripped(ref) == IF ref # <<>> /\ ref[1] = "@" THEN SubSeq(ref, 2, Len(ref)) ELSE ref

\* the reference the claim gives a line
NormalizedReference(line) ==
    AtStripped(IF startswith(LastToken(line), URL_PREFIX)
               THEN UrlStripped(LastToken(line))
               ELSE LastToken(line))

\* the line of the reference file an entry of the loop was read from
LineOf(o) == repos_of(repos_file.lines)[o.index + 1]

(* C15: in reference-file mode the reference of a non-empty line is its last *)
(* whitespace-delimited token; a reference that starts with the web URL      *)
(* prefix has that prefix stripped and then a trailing ".git" removed; a     *)
(* leading "@" is then stripped; a reference not given as a URL keeps its    *)
(* trailing ".git". The repository name is the last "/"-separated segment of *)
(* the result.                                                               *)
C15_ReferenceNormalization ==
    repos_file.given =>
        \A i \in 1..Len(outcomes) :
            /\ outcomes[i].repo_ref = NormalizedReference(LineOf(outcomes[i]))
            /\ outcomes[i].repo_name = BaseName(NormalizedReference(LineOf(outcomes[i])))

(* C16: when a reference file is supplied the run never queries the hosting  *)
(* API and never prompts for a selection: no page request is issued between  *)
(* directory setup and the end of the run.                                   *)
C16_FileModeBypassesCatalog ==
    repos_file.given =>
        /\ requests = <<>>
        /\ page_number = 1 /\ repositories = <<>> /\ all_repos = <<>>
        /\ prompts = 0 /\ indices_input = NoInput /\ selected_indices = <<>>
        /\ pc \in {"start", "file", "done", "exited"}
        /\ \A i \in 1..Len(console) :
               console[i].text \notin {"Found repositories", "Repository table"}

C16_Witness ==
    /\ repos_file.given
    /\ pc = "done"
    /\ Len(outcomes) = 2
    /\ outcomes[1].cloned

-----------------------------------------------------------------------------
(* Helpers of the claims about the plan and the whole run *)

\* the operator declined to select, and get_selected_repos has returned
DeclinedToSelect ==
    /\ ~repos_file.given
    /\ pc \in {"clone", "done"}
    /\ prompts = 0

(* C17: when the operator declines to select specific repositories (mode     *)
(* ALL), the plan is every element of the catalog exactly once, in the order *)
(* in which the listing was fetched.                                         *)
C17_PlanAllIsCatalog ==
    DeclinedToSelect =>
        /\ \A i \in 1..Len(selected_indices) : InCatalog(selected_indices[i])
        /\ [i \in 1..Len(selected_indices) |-> all_repos[selected_indices[i] + 1]] = Catalog

C17_Witness ==
    /\ DeclinedToSelect
    /\ catalog_size > 2 * PerPage
    /\ Len(requests) = 4

\* the listing came back empty: the first page held nothing
EmptyCatalogFetched ==
    /\ ~repos_file.given
    /\ catalog_size = 0
    /\ pc \notin {"start", "fetch"}
    /\ requests # <<>>
    /\ requests[Len(requests)].result = "ok"

\* some answer to the prompt makes get_selected_repos return
SomeAnswerReturns ==
    \E answer \in InputStrings(MaxInputLen) :
        read_indices(tokens_of(answer), Len(all_repos)).returned

(* C18: when the first page is empty, the fetch returns an empty sequence    *)
(* without error and the run completes normally: no clone is attempted and   *)
(* the summary reports zero successes, zero failures and zero READMEs.       *)
C18_EmptyCatalogCompletes ==
    EmptyCatalogFetched =>
        /\ Len(requests) = 1
        /\ all_repos = <<>>
        /\ outcomes = <<>>
        /\ pc = "exited" => Interrupted
        /\ pc = "prompt" => SomeAnswerReturns
        /\ pc = "done" =>
               SummaryCounts = << [text |-> "Successfully cloned", n |-> 0],
                                  [text |-> "Failed to clone", n |-> 0],
                                  [text |-> "Processed READMEs", n |-> 0] >>

\* setup_directories turned a path down
SandboxViolation == \E i \in 1..Len(console) : console[i] = EscapeError

\* a page request of the listing failed
CatalogFetchFailure == \E i \in 1..Len(requests) : requests[i].result # "ok"

\* the batch was started and the operator has not interrupted it: whatever
\* went wrong in the run is a failure of the clone or the README of an entry
OnlyEntryFailures == outcomes # <<>> /\ ~Interrupted

(* C19: sandbox violations and catalog-fetch failures stop the run with a    *)
(* non-zero exit status before any clone is started, whereas a run in which  *)
(* only clone or README failures of single repositories occur goes on to the *)
(* final summary and does not end with the non-zero exit status.             *)
C19_ErrorPropagation ==
    /\ (SandboxViolation \/ CatalogFetchFailure) =>
           /\ pc = "exited"
           /\ exit_code = 1
           /\ outcomes = <<>>
    /\ OnlyEntryFailures =>
           /\ pc \in {"clone", "file", "done"}
           /\ exit_code # 1

-----------------------------------------------------------------------------
(* Helpers of the claim about calling setup_directories again *)

\* the organization directory of the arguments, and whether it is there
OrgDirectory == path_join(path_join(cwd, base_dir), org_dir)
OrgDirectoryExists == path_exists(OrgDirectory, dirs, cwd)

(* C20: if the organization directory already exists, setup_directories      *)
(* emits a warning and still returns that path, without failing and without  *)
(* deleting or re-creating it; an existing base directory causes no error    *)
(* either, so a second call with the same arguments succeeds like the first  *)
(* and returns the same path.                                                *)
C20_SetupIsRepeatable ==
    [][ /\ (pc = "start" /\ pc' # "exited" /\ OrgDirectoryExists) =>
               /\ console' = Append(console, ExistsWarning)
               /\ org_path' = OrgDirectory
               /\ dirs \subseteq dirs'
               /\ realdir(OrgDirectory, cwd) \notin made'
        /\ pc = "setup_done" =>
               /\ pc' = "setup_again"
               /\ exit_code' = -1
               /\ org_path' = org_path
               /\ console' = Append(console, ExistsWarning)
               /\ dirs' = dirs
               /\ made' = made ]_vars

C20_Witness ==
    /\ pc = "setup_again"
    /\ base_dir = <<"w">>
    /\ org_dir = <<"w">>
    /\ made # {}
    /\ console = <<ExistsWarning>>

-----------------------------------------------------------------------------
(* Helpers of the claims about the order of the page requests *)

\* request i was answered, and with descriptors
AnsweredWithData(i) ==
    /\ requests[i].result = "ok"
    /\ server_page(catalog_size, requests[i].url.page, requests[i].url.per_page) # <<>>

(* C21: page requests are issued strictly in sequence, for pages 1, 2, 3,    *)
(* ... without gaps or repeats: page n+1 is requested only after page n has  *)
(* come back with descriptors, and no request follows the first empty page   *)
(* or the first failed page.                                                 *)
C21_PagesStrictlySequential ==
    /\ \A i \in 1..Len(requests) : requests[i].url.page = i
    /\ \A i \in 1..(Len(requests) - 1) : AnsweredWithData(i)
    /\ page_number = Len(requests) + (IF pc = "fetch" THEN 1 ELSE 0)
    /\ pc # "fetch" => (requests # <<>> /\ ~AnsweredWithData(Len(requests)))

C21_Witness ==
    /\ pc = "exited"
    /\ Len(requests) = 3
    /\ requests[3].result = "Timeout"
    /\ catalog_size = 2 * PerPage + 1

-----------------------------------------------------------------------------
(* Helpers of the claim about the order of the walk *)

\* the place of a name in the listing order of a tree
Rank(tree, name) == CHOOSE k \in 1..Len(tree.order) : tree.order[k] = name

\* the first position at which two files of a tree part ways
PartingOf(p, q) ==
    CHOOSE k \in 1..Len(p) : /\ k <= Len(q)
                             /\ p[k] # q[k]
                             /\ \A i \in 1..(k - 1) : p[i] = q[i]

\* file p comes before file q in a top-down traversal: where they part ways,
\* a file of the directory comes before all that is below its sub-directories,
\* and two entries of the same kind come in listing order
ComesBefore(tree, p, q) ==
    IF Len(p) = PartingOf(p, q) /\ Len(q) > PartingOf(p, q) THEN TRUE
    ELSE IF Len(p) > PartingOf(p, q) /\ Len(q) = PartingOf(p, q) THEN FALSE
    ELSE Rank(tree, p[PartingOf(p, q)]) < Rank(tree, q[PartingOf(p, q)])

\* the first match in traversal order
FirstMatch(tree) ==
    CHOOSE p \in ReadmeFiles(tree) :
        \A q \in ReadmeFiles(tree) \ {p} : ComesBefore(tree, p, q)

\* where the clone of an entry is, and a path inside it taken relative to it
RepoPathOf(o) == path_join(org_path, o.repo_name)
RelativeSource(o) ==
    IF o.readme_src = NoPath THEN NoPath
    ELSE SubSeq(o.readme_src, Len(RepoPathOf(o)) + 1, Len(o.readme_src))

(* C22: for a fixed directory snapshot find_readme is deterministic: two     *)
(* runs on the same snapshot return the same path. The walk being top-down,  *)
(* it returns the first match in traversal order: when the root directory    *)
(* of the repository holds a matching file, the file returned is in the root *)
(* directory, never a nested one.                                            *)
C22_DeterministicTopDown ==
    /\ \A i, j \in 1..Len(outcomes) :
           (outcomes[i].cloned /\ outcomes[j].cloned /\ outcomes[i].tree = outcomes[j].tree)
               => RelativeSource(outcomes[i]) = RelativeSource(outcomes[j])
    /\ \A i \in 1..Len(outcomes) :
           (outcomes[i].cloned /\ ReadmeFiles(outcomes[i].tree) # {}) =>
               /\ outcomes[i].readme_src =
                      join_names(RepoPathOf(outcomes[i]), FirstMatch(outcomes[i].tree))
               /\ (\E p \in ReadmeFiles(outcomes[i].tree) : Len(p) = 1)
                      => DirName(outcomes[i].readme_src) = RepoPathOf(outcomes[i])

C22_Witness ==
    /\ Len(outcomes) = 2
    /\ outcomes[1].copied /\ outcomes[2].copied
    /\ outcomes[1].tree.files = {<<<<"R", "e", "a", "d", "M", "e", ".", "M", "D">>>>, <<<<"d">>, <<"R", "E", "A", "D", "M", "E", ".", "m", "d">>>>}
    /\ outcomes[1].tree.order[1] = <<"r", "e", "a", "d", "m", "e", ".", "t", "x", "t">>
    /\ BaseName(outcomes[2].readme_src) = <<"R", "e", "a", "d", "M", "e", ".", "M", "D">>
    /\ DirName(outcomes[2].readme_src) = RepoPathOf(outcomes[2])

-----------------------------------------------------------------------------
(* Helpers of the claim about the counters *)

\* the run was ended by an exception other than the operator's interrupt
Aborted == pc = "exited" /\ ~Interrupted

(* C23: at every step of the clone loop, in catalog mode and in              *)
(* reference-file mode alike, successful_clones + failed_clones is the       *)
(* number of plan entries processed so far and processed_readmes is at most  *)
(* successful_clones; at the end successful_clones + failed_clones is the    *)
(* length of the plan. The steps of the loop are the states of a run that    *)
(* no exception has ended.                                                   *)
C23_CountersAddUp ==
    /\ ~Aborted =>
           /\ position = Len(outcomes)
           /\ successful_clones + failed_clones = position
           /\ processed_readmes <= successful_clones
    /\ pc = "done" => successful_clones + failed_clones = Len(PlanIndices)

C23_Witness ==
    /\ pc = "done"
    /\ repos_file.given
    /\ Len(PlanIndices) = 2
    /\ successful_clones = 1 /\ failed_clones = 1 /\ processed_readmes = 0

C23_WitnessCatalog ==
    /\ pc = "clone"
    /\ ~repos_file.given
    /\ position = 2
    /\ successful_clones = 1 /\ failed_clones = 1

-----------------------------------------------------------------------------
(* Helpers of the claim about the selection step *)

\* the operator's last answer is a fully valid list: integers only, each the
\* number of a row of the table
ValidAnswer ==
    /\ AnsweredWithIntegers
    /\ \A i \in 1..Len(NamedIndices) : InCatalog(NamedIndices[i])

\* the operator's last answer is unparsable or holds an out-of-range number
RejectedAnswer == indices_input # NoInput /\ ~ValidAnswer

\* the skip branch of the clone loop has been taken
SkipBranchTaken ==
    \E i \in 1..Len(console) : console[i].text = "Index is out of range. Skipping."

\* nothing of the clone loop has happened
NothingCloned ==
    /\ selected_indices = <<>>
    /\ outcomes = <<>>
    /\ position = 0
    /\ files = {}
    /\ successful_clones = 0 /\ failed_clones = 0 /\ processed_readmes = 0
    /\ \A d \in made : ~IsDescendant(d, org_path) \/ d = org_path

(* C24: get_selected_repos returns only index lists in which every index     *)
(* lies in [0, len(catalog)). After any answer that is unparsable or holds   *)
(* an out-of-range number it asks again, with no clone started and no state  *)
(* changed; so the out-of-range skip branch of the clone loop is never       *)
(* reached, and the step is left only on a fully valid list: it does not     *)
(* terminate if the operator never supplies one.                             *)
C24_SelectionOnlyInRange ==
    /\ \A i \in 1..Len(selected_indices) : InCatalog(selected_indices[i])
    /\ RejectedAnswer =>
           /\ pc = "prompt" \/ Interrupted
           /\ exit_code = -1 \/ Interrupted
           /\ NothingCloned
    /\ ~SkipBranchTaken
    /\ (prompts > 0 /\ pc \in {"clone", "done"}) =>
           /\ ValidAnswer
           /\ selected_indices = NamedIndices

C24_Witness ==
    /\ indices_input = <<"1", ",", "2">>
    /\ Len(all_repos) = 1
    /\ pc = "prompt"
    /\ prompts = 2
    /\ console[Len(console)] = OutOfRange
    /\ console[Len(console) - 1] = InvalidInput

-----------------------------------------------------------------------------
(* Helpers of the claim about the retry loop *)

\* the i-th request of the call ended in an exception
RaisedFailure(i) == abi_requests[i].outcome \notin {"abi", "not_ok"}

\* the i-th request of the call brought a well-formed response whose status is not OK
StatusNotOk(i) == abi_requests[i].outcome = "not_ok"

\* the seconds slept after the raised failures of attempts 0 and 1
Backoff == <<1, 2>>

\* the call is over
CallReturned == abi_pc = "returned"

\* the bounds and the back-off of the retry loop, in every state of a call
RetryLoopBounded ==
    /\ Len(abi_requests) <= 3
    /\ \A i \in 1..Len(abi_requests) : abi_requests[i].attempt = i - 1
    /\ \A i \in 1..(Len(abi_requests) - 1) : RaisedFailure(i)
    /\ \A i \in 1..Len(abi_requests) :
           (RaisedFailure(i) /\ i - 1 < 2) =>
               /\ Len(sleeps) >= i
               /\ sleeps[i] = Backoff[i]
               /\ i = Len(abi_requests) => (abi_pc = "request" /\ Len(sleeps) = i)
    /\ (Len(abi_requests) = 3 /\ RaisedFailure(3)) =>
           /\ CallReturned
           /\ abi_result = ReturnedNone
           /\ sleeps = Backoff
    /\ \A i \in 1..Len(abi_requests) :
           StatusNotOk(i) =>
               /\ i = Len(abi_requests)
               /\ CallReturned
               /\ abi_result = ReturnedNone
               /\ Len(sleeps) = i - 1
    /\ Len(sleeps) <= Len(abi_requests)
    /\ abi_pc = "request" => abi_result = NotReturned

C25_WitnessNotOk ==
    /\ CallReturned
    /\ Len(abi_requests) = 2
    /\ StatusNotOk(2)
    /\ sleeps = <<1>>

====
